---- MODULE Spec2Model ----
(***************************************************************************)
(* Peachtree Bank API: the transaction engine (create_transaction,         *)
(* update_transaction), the by-id reads and the unit of work               *)
(* (db_transaction) over the SQLAlchemy store.                             *)
(*                                                                         *)
(* Two deployments of the same store are modelled, selected by `variant`:  *)
(*   "tracking" : src/app.py              (funds check, balance updates)   *)
(*   "routes"   : src/routes/*.py         (no balance column is touched)   *)
(*                                                                         *)
(* Money is counted in cents (Numeric(10, 2)); request amounts are given   *)
(* in thousandths so that marshmallow's quantisation to 2 places is a real *)
(* conversion.                                                             *)
(***************************************************************************)
EXTENDS Integers, Sequences, FiniteSets, TLC

\* ------------------------------------------------------------------ bounds
\* transactions created through POST /api/transactions
MaxTx == 1

\* ------------------------------------------------------------------- seed
\* seed.py: the accounts with their opening balances (scaled to cents); the
\* API never adds or removes an account
SeedAccounts == <<2, 1, 0>>
AccountIds == DOMAIN SeedAccounts

\* ids that reference nothing
MissingAccountId == Len(SeedAccounts) + 1
MissingTransactionId == MaxTx + 2

\* ------------------------------------------------------- program constants
SENT == "sent"
RECEIVED == "received"
PAID == "paid"
TransactionState == {SENT, RECEIVED, PAID}

CARD_PAYMENT == "Card Payments"
TRANSACTION == "Transaction"
ONLINE_TRANSFER == "Online transfer"
TransactionType == {CARD_PAYMENT, TRANSACTION, ONLINE_TRANSFER}

MinAmountCents == 1

\* marker for a numeric field that is absent from the JSON body
NoInt == 0 - 1000

\* A JSON string is a sequence of pieces: plain text, an HTML tag "<...>" or
\* an event attribute on...="..."; an absent string field is the piece Absent.
Txt(t) == [kind |-> "text", text |-> t]
Tag(t) == [kind |-> "tag", text |-> t]
Attr(t) == [kind |-> "attr", text |-> t]
NoStr == <<[kind |-> "absent", text |-> ""]>>

VARIABLES
    variant,        \* which application serves the store
    balance,        \* committed Account.balance, by account id (cents)
    transactions,   \* committed Transaction rows; row i has primary key i
    resp,           \* the response of the last request handled
    txn,            \* the create in flight: its session and open transaction
    seen,           \* what the last concurrent read was served from
    page            \* the response of the last list or search request

vars == <<variant, balance, transactions, resp, txn, seen, page>>

\* ----------------------------------------------------------------- schemas

\* decimal.quantize(Decimal("0.01")) under the default ROUND_HALF_EVEN,
\* thousandths -> cents
RECURSIVE Quantize(_)
Quantize(m) ==
    IF m < 0 THEN 0 - Quantize(0 - m)
    ELSE LET q == m \div 10
             r == m % 10
         IN  IF r < 5 THEN q
             ELSE IF r > 5 THEN q + 1
             ELSE IF q % 2 = 0 THEN q ELSE q + 1

\* the string the client sent
RECURSIVE Raw(_)
Raw(value) == IF value = <<>> THEN "" ELSE Head(value).text \o Raw(Tail(value))

\* re.sub(r'<[^>]*>', '', value), then the script and on...="..." removals
RECURSIVE sanitize_string(_)
sanitize_string(value) ==
    IF value = <<>> THEN ""
    ELSE (IF Head(value).kind = "text" THEN Head(value).text ELSE "")
         \o sanitize_string(Tail(value))

\* Range(min=0): only a negative amount is refused
TransactionFieldErrors_minzero(data) ==
       (IF data.from_account_id = NoInt THEN {"from_account_id: Missing data for required field."}
        ELSE IF data.from_account_id < 1 THEN {"from_account_id: Invalid source account ID"}
        ELSE {})
  \cup (IF data.to_account_id = NoInt THEN {"to_account_id: Missing data for required field."}
        ELSE IF data.to_account_id < 1 THEN {"to_account_id: Invalid destination account ID"}
        ELSE {})
  \cup (IF data.amount = NoInt THEN {"amount: Missing data for required field."}
        ELSE IF Quantize(data.amount) < 0 THEN {"amount: Amount must be greater than zero"}
        ELSE {})
  \cup (IF data.description = NoStr THEN {"description: Missing data for required field."}
        ELSE IF sanitize_string(data.description) \notin TransactionType
             THEN {"description: Description must be one of: Card Payments, Transaction, Online transfer"}
        ELSE {})
  \cup (IF data.state = NoStr THEN {}
        ELSE IF sanitize_string(data.state) \notin TransactionState
             THEN {"state: State must be one of: sent, received, paid"}
        ELSE {})

\* field errors of TransactionSchema().load(data), data already sanitised
TransactionFieldErrors(data) ==
       (IF data.from_account_id = NoInt THEN {"from_account_id: Missing data for required field."}
        ELSE IF data.from_account_id < 1 THEN {"from_account_id: Invalid source account ID"}
        ELSE {})
  \cup (IF data.to_account_id = NoInt THEN {"to_account_id: Missing data for required field."}
        ELSE IF data.to_account_id < 1 THEN {"to_account_id: Invalid destination account ID"}
        ELSE {})
  \cup (IF data.amount = NoInt THEN {"amount: Missing data for required field."}
        ELSE IF Quantize(data.amount) < MinAmountCents THEN {"amount: Amount must be greater than zero"}
        ELSE {})
  \cup (IF data.description = NoStr THEN {"description: Missing data for required field."}
        ELSE IF sanitize_string(data.description) \notin TransactionType
             THEN {"description: Description must be one of: Card Payments, Transaction, Online transfer"}
        ELSE {})
  \cup (IF data.state = NoStr THEN {}
        ELSE IF sanitize_string(data.state) \notin TransactionState
             THEN {"state: State must be one of: sent, received, paid"}
        ELSE {})

\* lets a transfer to the same account through
validate_different_accounts_off(data) == {}

\* @validates_schema runs only when no field failed (skip_on_field_errors)
validate_different_accounts(data) ==
    IF data.from_account_id = data.to_account_id
    THEN {"to_account_id: Source and destination accounts must be different"}
    ELSE {}

TransactionSchemaErrors(data) ==
    IF TransactionFieldErrors(data) # {}
    THEN TransactionFieldErrors(data)
    ELSE validate_different_accounts(data)

\* accepts any state that is present
TransactionUpdateSchemaErrors_anystring(data) ==
    IF data.state = NoStr THEN {"state: Missing data for required field."} ELSE {}

\* field errors of TransactionUpdateSchema().load(data), data already sanitised
TransactionUpdateSchemaErrors(data) ==
    IF data.state = NoStr THEN {"state: Missing data for required field."}
    ELSE IF sanitize_string(data.state) \notin TransactionState
         THEN {"state: State must be one of: sent, received, paid"}
    ELSE {}

\* ------------------------------------------------------------------- store

Store == [balance |-> balance, transactions |-> transactions]

\* takes the state from the body when the body has one
NewTransaction_payloadstate(store, data) ==
    [amount |-> Quantize(data.amount),
     from_account_id |-> data.from_account_id,
     to_account_id |-> data.to_account_id,
     state |-> IF data.state = NoStr THEN SENT ELSE sanitize_string(data.state),
     description |-> sanitize_string(data.description),
     date |-> Len(store.transactions) + 1]

\* Transaction(...) as inserted: the primary key is the row's position; date
\* is the insertion instant (default=datetime.utcnow), counted as the number
\* of rows in the table at that instant plus one
NewTransaction(store, data) ==
    [amount |-> Quantize(data.amount),
     from_account_id |-> data.from_account_id,
     to_account_id |-> data.to_account_id,
     state |-> SENT,
     description |-> sanitize_string(data.description),
     date |-> Len(store.transactions) + 1]

\* an UPDATE of the state that writes the whole row, the amount as zero
ApplyWrite_wholerow(store, w) ==
    CASE w.kind = "insert" ->
            [store EXCEPT !.transactions = Append(@, w.row)]
      [] w.kind = "balance" ->
            [store EXCEPT !.balance[w.id] = w.value]
      [] w.kind = "state" ->
            [store EXCEPT !.transactions[w.id].state = w.value,
                          !.transactions[w.id].amount = 0]

\* one SQL statement of the flush, applied to the connection's view
ApplyWrite(store, w) ==
    CASE w.kind = "insert" ->
            [store EXCEPT !.transactions = Append(@, w.row)]
      [] w.kind = "balance" ->
            [store EXCEPT !.balance[w.id] = w.value]
      [] w.kind = "state" ->
            [store EXCEPT !.transactions[w.id].state = w.value]

RECURSIVE ApplyWrites(_, _)
ApplyWrites(store, writes) ==
    IF writes = <<>> THEN store
    ELSE ApplyWrites(ApplyWrite(store, Head(writes)), Tail(writes))

\* what can go wrong inside a unit of work: nothing, an exception raised in
\* the with-body before anything is flushed, or a SQLAlchemyError after
\* all `at` statements of the flush, in COMMIT itself
NoFault == [kind |-> "none", at |-> 0]
Faults(writes) ==
    {NoFault,
     [kind |-> "Exception", at |-> 0],
     [kind |-> "SQLAlchemyError", at |-> Len(writes)]}

\* db.session.commit(): every statement of the unit becomes visible at once
Commit(store, writes) == ApplyWrites(store, writes)

\* db.session.rollback(): the statements executed so far are undone
Rollback(store, writes, done) == store

\* keeps what was flushed before the failure
db_transaction_norollback(store, writes, fault) ==
    IF fault.kind = "none"
    THEN Commit(store, writes)
    ELSE ApplyWrites(store, SubSeq(writes, 1, fault.at))

\* with db_transaction(): ... -- the committed store afterwards
db_transaction(store, writes, fault) ==
    IF fault.kind = "none"
    THEN Commit(store, writes)
    ELSE Rollback(store, writes, fault.at)

\* misses the first transaction
Exists_skipfirst(store, model, id) ==
    IF model = "Account" THEN id \in DOMAIN store.balance
    ELSE id \in DOMAIN store.transactions /\ id # 1

\* model.query.get(id) is not None
Exists(store, model, id) ==
    IF model = "Account" THEN id \in DOMAIN store.balance
    ELSE id \in DOMAIN store.transactions

\* ---------------------------------------------------------------- responses

NoRow == [id |-> 0, amount |-> 0, from_account_id |-> 0, to_account_id |-> 0,
          state |-> "", description |-> "", date |-> 0]
NoReq == [from_account_id |-> 0, to_account_id |-> 0, amount |-> 0, state |-> "", raw |-> ""]

\* jsonify({...}) of a transaction
TransactionJson(store, id) ==
    [id |-> id,
     amount |-> store.transactions[id].amount,
     from_account_id |-> store.transactions[id].from_account_id,
     to_account_id |-> store.transactions[id].to_account_id,
     state |-> store.transactions[id].state,
     description |-> store.transactions[id].description,
     date |-> store.transactions[id].date]

Ok(op, status, id, row, req) ==
    [op |-> op, status |-> status, error |-> "", message |-> "", details |-> {},
     id |-> id, row |-> row, req |-> req, at |-> 0]

Error(op, status, error, message, details, id, req, at) ==
    [op |-> op, status |-> status, error |-> error, message |-> message,
     details |-> details, id |-> id, row |-> NoRow, req |-> req, at |-> at]

\* raise ValidationError(message, payload) -> handle_api_error
ValidationError(op, message, details, id, req) ==
    Error(op, 400, "ValidationError", message, details, id, req, 0)

\* get_or_404: raise ResourceNotFoundError -> handle_api_error
ResourceNotFoundError(op, model, id, req) ==
    Error(op, 404, "ResourceNotFoundError",
          model \o " with ID " \o ToString(id) \o " not found", {}, id, req, 0)

\* a failed unit of work as the client sees it: APIError from db_transaction,
\* or the re-raised exception through handle_unexpected_error
UnitOfWorkError(op, fault, id) ==
    IF fault.kind = "SQLAlchemyError"
    THEN Error(op, 500, "APIError", "Transaction error: <driver text>", {}, id, NoReq, fault.at)
    ELSE Error(op, 500, "UnexpectedError", "An unexpected error occurred", {}, id, NoReq, fault.at)

\* query parameters of a list or search request; "" and NoInt: not sent
NoParams == [limit |-> NoInt, offset |-> NoInt, sort_by |-> "", sort_order |-> "",
             search |-> "", q |-> ""]

\* jsonify(result) of a list or a search: the ids of the records, in order
PageOk(op, accounts, rows, params) ==
    [op |-> op, status |-> 200, error |-> "", message |-> "", details |-> {},
     accounts |-> accounts, transactions |-> rows, params |-> params]

PageError(op, status, error, message, details, params) ==
    [op |-> op, status |-> status, error |-> error, message |-> message,
     details |-> details, accounts |-> <<>>, transactions |-> <<>>, params |-> params]

NoPage == PageError("none", 0, "", "", {}, NoParams)

\* ------------------------------------------------------------------ inputs

EmptyData == [from_account_id |-> NoInt, to_account_id |-> NoInt, amount |-> NoInt,
              description |-> NoStr, state |-> NoStr]

BaseData == [from_account_id |-> 1, to_account_id |-> 2, amount |-> 10,
             description |-> <<Txt(TRANSACTION)>>, state |-> NoStr]

\* well-formed bodies: transfers of 0.01 and 0.02 between existing accounts
\* (the seeded balances cover 1 -> 2 and 2 -> 3 but not 3 -> 1)
Transfers == {<<1, 2, 10>>, <<1, 2, 20>>, <<2, 3, 10>>, <<3, 1, 10>>}
WellFormedData ==
    {[BaseData EXCEPT !.from_account_id = t[1], !.to_account_id = t[2], !.amount = t[3]] :
        t \in Transfers}

\* bodies that carry a state, an amount with three decimals, markup,
\* a missing account, or a defect
SpecialData ==
    {EmptyData,
     [BaseData EXCEPT !.state = <<Txt(PAID)>>],
     [BaseData EXCEPT !.from_account_id = 2, !.to_account_id = 3, !.amount = 14],
     [BaseData EXCEPT !.amount = 4],
     [BaseData EXCEPT !.amount = 0],
     [BaseData EXCEPT !.amount = 0 - 10],
     [BaseData EXCEPT !.to_account_id = 1],
     [BaseData EXCEPT !.to_account_id = 1, !.amount = 0],
     [BaseData EXCEPT !.from_account_id = 0],
     [BaseData EXCEPT !.state = <<Txt("pending")>>],
     [BaseData EXCEPT !.from_account_id = MissingAccountId],
     [BaseData EXCEPT !.to_account_id = MissingAccountId],
     [BaseData EXCEPT !.from_account_id = MissingAccountId, !.amount = 0],
     [BaseData EXCEPT !.from_account_id = MissingAccountId,
                      !.to_account_id = MissingAccountId],
     [BaseData EXCEPT !.from_account_id = MissingAccountId,
                      !.to_account_id = MissingAccountId + 1],
     [BaseData EXCEPT !.to_account_id = MissingAccountId, !.amount = 30]}

CreatePayloads == WellFormedData \cup SpecialData

\* PATCH bodies: {}, a body without state, the three states, an unknown
\* state, and a state wrapped in markup (`extra`: a key other than state)
UpdatePayloads ==
    {[state |-> v, extra |-> FALSE] :
        v \in {NoStr, <<Txt(SENT)>>, <<Txt(RECEIVED)>>, <<Txt(PAID)>>,
               <<Txt("completed")>>, <<Tag("<b>"), Txt(PAID), Tag("</b>")>>}}
    \cup {[state |-> NoStr, extra |-> TRUE]}

\* path parameters: every id in use and one that is not
TransactionIdInputs == DOMAIN transactions \cup {MissingTransactionId}
AccountIdInputs == AccountIds \cup {MissingAccountId}

\* ------------------------------------------------------ create_transaction

\* what the handler keeps of a validated body
Req(data) ==
    [from_account_id |-> data.from_account_id,
     to_account_id |-> data.to_account_id,
     amount |-> data.amount,
     state |-> IF data.state = NoStr THEN "" ELSE sanitize_string(data.state),
     raw |-> IF data.state = NoStr THEN "" ELSE Raw(data.state)]

\* debits the source and forgets the destination
CreateWrites_nocredit(store, from_balance, to_balance, data) ==
    <<[kind |-> "insert", row |-> NewTransaction(store, data)],
      [kind |-> "balance", id |-> data.from_account_id,
       value |-> from_balance - Quantize(data.amount)]>>

\* the statements of the unit of work of app.py create_transaction:
\* session.add(transaction); from_account.balance -= amount;
\* to_account.balance += amount  (the ORM writes the new absolute values)
CreateWrites(store, from_balance, to_balance, data) ==
    <<[kind |-> "insert", row |-> NewTransaction(store, data)],
      [kind |-> "balance", id |-> data.from_account_id,
       value |-> from_balance - Quantize(data.amount)],
      [kind |-> "balance", id |-> data.to_account_id,
       value |-> to_balance + Quantize(data.amount)]>>

\* also marks the transaction before the new one as paid
RoutesCreateWrites_settleprevious(store, data) ==
    <<[kind |-> "insert", row |-> NewTransaction(store, data)],
      [kind |-> "state", id |-> Len(store.transactions), value |-> PAID]>>

\* the statements of the unit of work of routes/transactions.py
RoutesCreateWrites(store, data) ==
    <<[kind |-> "insert", row |-> NewTransaction(store, data)]>>

\* a handler's result: the committed store, the response, and whether the
\* request got as far as its unit of work
Rejected(store, response) == [store |-> store, resp |-> response, uow |-> FALSE]

\* looks the destination account up before the source account
CreateChecks_destinationfirst(op, store, data) ==
    IF data = EmptyData
    THEN ValidationError(op, "No JSON data provided", {}, 0, NoReq)
    ELSE IF TransactionSchemaErrors(data) # {}
    THEN ValidationError(op, "Request validation failed",
                         TransactionSchemaErrors(data), 0, NoReq)
    ELSE IF ~Exists(store, "Account", data.to_account_id)
    THEN ResourceNotFoundError(op, "Account", data.to_account_id, Req(data))
    ELSE IF ~Exists(store, "Account", data.from_account_id)
    THEN ResourceNotFoundError(op, "Account", data.from_account_id, Req(data))
    ELSE Ok(op, 0, 0, NoRow, Req(data))

\* `if not data`, validate_request and the two get_or_404 of both create
\* handlers: the response when one of them raises, else Ok
CreateChecks(op, store, data) ==
    IF data = EmptyData
    THEN ValidationError(op, "No JSON data provided", {}, 0, NoReq)
    ELSE IF TransactionSchemaErrors(data) # {}
    THEN ValidationError(op, "Request validation failed",
                         TransactionSchemaErrors(data), 0, NoReq)
    ELSE IF ~Exists(store, "Account", data.from_account_id)
    THEN ResourceNotFoundError(op, "Account", data.from_account_id, Req(data))
    ELSE IF ~Exists(store, "Account", data.to_account_id)
    THEN ResourceNotFoundError(op, "Account", data.to_account_id, Req(data))
    ELSE Ok(op, 0, 0, NoRow, Req(data))

\* also refuses a transfer of the whole balance
InsufficientFunds_le(store, data) ==
    store.balance[data.from_account_id] <= Quantize(data.amount)

\* looks at the destination's balance
InsufficientFunds_destination(store, data) ==
    store.balance[data.to_account_id] < Quantize(data.amount)

\* app.py: amount = Decimal(str(validated_data['amount']));
\* if from_account.balance < amount
InsufficientFunds(store, data) ==
    store.balance[data.from_account_id] < Quantize(data.amount)

\* answers with the id of the row before the new one
CreateUnitOfWork_staleid(op, store, writes, data, fault) ==
    LET after == db_transaction(store, writes, fault)
        id == Len(store.transactions)
    IN  [store |-> after,
         resp |-> IF fault.kind = "none"
                  THEN Ok(op, 201, id, TransactionJson(after, id), Req(data))
                  ELSE UnitOfWorkError(op, fault, 0),
         uow |-> TRUE]

\* the unit of work and the response built after it
CreateUnitOfWork(op, store, writes, data, fault) ==
    LET after == db_transaction(store, writes, fault)
        id == Len(store.transactions) + 1
    IN  [store |-> after,
         resp |-> IF fault.kind = "none"
                  THEN Ok(op, 201, id, TransactionJson(after, id), Req(data))
                  ELSE UnitOfWorkError(op, fault, 0),
         uow |-> TRUE]

\* app.py create_transaction, the whole handler
CreateOutcome(store, data, fault) ==
    LET checks == CreateChecks("create_transaction", store, data)
    IN  IF checks.status # 0
        THEN Rejected(store, checks)
        ELSE IF InsufficientFunds(store, data)
        THEN Rejected(store, ValidationError("create_transaction",
                                "Insufficient funds in source account", {}, 0, Req(data)))
        ELSE CreateUnitOfWork("create_transaction", store,
                              CreateWrites(store, store.balance[data.from_account_id],
                                           store.balance[data.to_account_id], data),
                              data, fault)

\* inserts without looking the accounts up
RoutesCreateOutcome_nolookup(store, data, fault) ==
    IF data = EmptyData \/ TransactionSchemaErrors(data) # {}
    THEN Rejected(store, CreateChecks("create_transaction", store, data))
    ELSE CreateUnitOfWork("create_transaction", store, RoutesCreateWrites(store, data),
                          data, fault)

\* looks up the source account only
RoutesCreateOutcome_fromonly(store, data, fault) ==
    IF data = EmptyData \/ TransactionSchemaErrors(data) # {}
       \/ ~Exists(store, "Account", data.from_account_id)
    THEN Rejected(store, CreateChecks("create_transaction", store, data))
    ELSE CreateUnitOfWork("create_transaction", store, RoutesCreateWrites(store, data),
                          data, fault)

\* routes/transactions.py create_transaction, the whole handler
RoutesCreateOutcome(store, data, fault) ==
    LET checks == CreateChecks("create_transaction", store, data)
    IN  IF checks.status # 0
        THEN Rejected(store, checks)
        ELSE CreateUnitOfWork("create_transaction", store, RoutesCreateWrites(store, data),
                              data, fault)

\* the handler's commit and response become the new state; a fault is drawn
\* only for a request that reaches its unit of work
Respond(outcome, fault) ==
    /\ outcome.uow \/ fault = NoFault
    /\ balance' = outcome.store.balance
    /\ transactions' = outcome.store.transactions
    /\ resp' = outcome.resp
    /\ UNCHANGED <<variant, txn, seen, page>>

\* rows inserted through the API so far
Created == Len(SelectSeq(transactions, LAMBDA row : row.date > 0))

create_transaction(data, fault) ==
    /\ variant = "tracking"
    /\ LET outcome == CreateOutcome(Store, data, fault)
       IN  /\ outcome.uow => Created < MaxTx
           /\ Respond(outcome, fault)

routes_create_transaction(data, fault) ==
    /\ variant = "routes"
    /\ LET outcome == RoutesCreateOutcome(Store, data, fault)
       IN  /\ outcome.uow => Created < MaxTx
           /\ Respond(outcome, fault)

\* ------------------------------------------------------ update_transaction

\* what the handler was sent and, once sanitised, works with
UpdateReq(data) ==
    [NoReq EXCEPT !.state = sanitize_string(data.state),
                  !.raw = IF data.state = NoStr THEN "<absent>" ELSE Raw(data.state)]

\* writes the state of every row
UpdateWrites_everyrow(store, id, data) ==
    [i \in DOMAIN store.transactions |->
        [kind |-> "state", id |-> i, value |-> sanitize_string(data.state)]]

\* refuses to move a transaction backwards (sent < received < paid)
StateRank(state) == IF state = SENT THEN 1 ELSE IF state = RECEIVED THEN 2 ELSE 3

UpdateWrites_forwardonly(store, id, data) ==
    IF StateRank(sanitize_string(data.state)) < StateRank(store.transactions[id].state)
    THEN <<>>
    ELSE <<[kind |-> "state", id |-> id, value |-> sanitize_string(data.state)]>>

\* stores the state as the client sent it, markup included
UpdateWrites_unsanitised(store, id, data) ==
    <<[kind |-> "state", id |-> id, value |-> Raw(data.state)]>>

\* gives the amount back to the source account when a transaction is paid
UpdateWrites_refund(store, id, data) ==
    <<[kind |-> "state", id |-> id, value |-> sanitize_string(data.state)],
      [kind |-> "balance", id |-> store.transactions[id].from_account_id,
       value |-> store.balance[store.transactions[id].from_account_id]
                    + store.transactions[id].amount]>>

\* with db_transaction(): transaction.state = validated_data['state']
UpdateWrites(store, id, data) ==
    <<[kind |-> "state", id |-> id, value |-> sanitize_string(data.state)]>>

\* update_transaction, the whole handler (the same text in app.py and in
\* routes/transactions.py)
UpdateOutcome(store, id, data, fault) ==
    IF data.state = NoStr /\ ~data.extra
    THEN Rejected(store, ValidationError("update_transaction", "No JSON data provided",
                                         {}, 0, UpdateReq(data)))
    ELSE IF TransactionUpdateSchemaErrors(data) # {}
    THEN Rejected(store, ValidationError("update_transaction", "Request validation failed",
                                         TransactionUpdateSchemaErrors(data), 0,
                                         UpdateReq(data)))
    ELSE IF ~Exists(store, "Transaction", id)
    THEN Rejected(store, ResourceNotFoundError("update_transaction", "Transaction", id,
                                               UpdateReq(data)))
    ELSE LET after == db_transaction(store, UpdateWrites(store, id, data), fault)
         IN  [store |-> after,
              resp |-> IF fault.kind = "none"
                       THEN Ok("update_transaction", 200, id, TransactionJson(after, id),
                               UpdateReq(data))
                       ELSE [UnitOfWorkError("update_transaction", fault, id)
                                EXCEPT !.req = UpdateReq(data)],
              uow |-> TRUE]

update_transaction(id, data, fault) ==
    /\ variant = "tracking"
    /\ Respond(UpdateOutcome(Store, id, data, fault), fault)

routes_update_transaction(id, data, fault) ==
    /\ variant = "routes"
    /\ Respond(UpdateOutcome(Store, id, data, fault), fault)

\* ------------------------------------------------------------------- reads

\* answers 304 with no body to a read that repeats the previous one
GetOutcome_notmodified(op, store, model, id) ==
    IF ~Exists(store, model, id)
    THEN ResourceNotFoundError(op, model, id, NoReq)
    ELSE IF resp.op = op /\ resp.id = id /\ resp.status = 200
    THEN Ok(op, 304, id, NoRow, NoReq)
    ELSE IF model = "Transaction"
    THEN Ok(op, 200, id, TransactionJson(store, id), NoReq)
    ELSE Ok(op, 200, id, NoRow, NoReq)

\* get_or_404(model, id) followed by jsonify: the response of a by-id read
GetOutcome(op, store, model, id) ==
    IF ~Exists(store, model, id)
    THEN ResourceNotFoundError(op, model, id, NoReq)
    ELSE IF model = "Transaction"
    THEN Ok(op, 200, id, TransactionJson(store, id), NoReq)
    ELSE Ok(op, 200, id, NoRow, NoReq)

get_transaction(id) ==
    /\ variant = "tracking"
    /\ resp' = GetOutcome("get_transaction", Store, "Transaction", id)
    /\ UNCHANGED <<variant, balance, transactions, txn, seen, page>>

routes_get_transaction(id) ==
    /\ variant = "routes"
    /\ resp' = GetOutcome("get_transaction", Store, "Transaction", id)
    /\ UNCHANGED <<variant, balance, transactions, txn, seen, page>>

get_account(id) ==
    /\ variant = "routes"
    /\ resp' = GetOutcome("get_account", Store, "Account", id)
    /\ UNCHANGED <<variant, balance, transactions, txn, seen, page>>

\* ------------------------------------------ one create, concurrent reads

\* no create in flight; no read made yet
NoTxn == [pc |-> "idle", data |-> EmptyData, writes |-> <<>>, pending |-> <<>>]
NoSeen == [op |-> "none", id |-> 0, flushed |-> 0 - 1,
           snapshot |-> [balance |-> SeedAccounts, transactions |-> <<>>]]

\* every statement takes effect, and is visible, on its own
Flush_autocommit(store, pending, w) ==
    [store |-> ApplyWrite(store, w), pending |-> pending]

\* one statement of the flush that db.session.commit() runs: it joins the
\* connection's open transaction and leaves the committed store alone
Flush(store, pending, w) ==
    [store |-> store, pending |-> Append(pending, w)]

\* a SELECT of another request: its own connection to the SQLite file, which
\* returns committed data only
Snapshot(store, pending) == store

\* create_transaction up to `with db_transaction()`: the checks, then the
\* session holding the new row and the two changed balances
create_begin(data) ==
    /\ variant = "tracking"
    /\ txn.pc = "idle"
    /\ LET outcome == CreateOutcome(Store, data, NoFault)
       IN  IF outcome.uow
           THEN /\ Created < MaxTx
                /\ txn' = [pc |-> "uow", data |-> data, pending |-> <<>>,
                           writes |-> CreateWrites(Store, balance[data.from_account_id],
                                                   balance[data.to_account_id], data)]
                /\ UNCHANGED resp
           ELSE /\ resp' = outcome.resp
                /\ UNCHANGED txn
    /\ UNCHANGED <<variant, balance, transactions, seen, page>>

\* the next INSERT or UPDATE of the flush
create_flush ==
    /\ txn.pc = "uow"
    /\ Len(txn.pending) < Len(txn.writes)
    /\ LET after == Flush(Store, txn.pending, txn.writes[Len(txn.pending) + 1])
       IN  /\ balance' = after.store.balance
           /\ transactions' = after.store.transactions
           /\ txn' = [txn EXCEPT !.pending = after.pending]
    /\ UNCHANGED <<variant, resp, seen, page>>

\* COMMIT, and the 201 response
create_commit ==
    /\ txn.pc = "uow"
    /\ Len(txn.pending) = Len(txn.writes)
    /\ LET outcome == CreateUnitOfWork("create_transaction", Store, txn.pending,
                                       txn.data, NoFault)
       IN  /\ balance' = outcome.store.balance
           /\ transactions' = outcome.store.transactions
           /\ resp' = outcome.resp
    /\ txn' = NoTxn
    /\ UNCHANGED <<variant, seen, page>>

\* an exception in the with-body, or a SQLAlchemyError in the flush or in
\* COMMIT: the except branches of db_transaction
create_fail(kind) ==
    /\ txn.pc = "uow"
    /\ kind = "Exception" => txn.pending = <<>>
    /\ LET outcome == CreateUnitOfWork("create_transaction", Store, txn.pending, txn.data,
                                       [kind |-> kind, at |-> Len(txn.pending)])
       IN  /\ balance' = outcome.store.balance
           /\ transactions' = outcome.store.transactions
           /\ resp' = outcome.resp
    /\ txn' = NoTxn
    /\ UNCHANGED <<variant, seen, page>>

\* a read request served while the create is anywhere in its course: what
\* its SELECT ran against, and how far the flush had got
Read(op, id) ==
    /\ variant = "tracking"
    /\ seen' = [op |-> op, id |-> id,
                flushed |-> IF txn.pc = "idle" THEN 0 - 1 ELSE Len(txn.pending),
                snapshot |-> Snapshot(Store, txn.pending)]
    /\ UNCHANGED <<variant, balance, transactions, resp, txn, page>>

read_get_transaction(id) == Read("get_transaction", id)
read_get_transactions == Read("get_transactions", 0)
read_get_account(id) == Read("get_account", id)
read_get_accounts == Read("get_accounts", 0)

\* ------------------------------------------------------------ specification

\* seed.py: a transaction between two different accounts, inserted without
\* touching the balances (date 0: before the API ran)
SeedTransactions ==
    <<[amount |-> 2, from_account_id |-> 3, to_account_id |-> 1, state |-> RECEIVED,
       description |-> "Monthly transfer", date |-> 0]>>

Init ==
    /\ variant \in {"tracking", "routes"}
    /\ balance = SeedAccounts
    /\ transactions = SeedTransactions
    /\ resp = Ok("none", 0, 0, NoRow, NoReq)
    /\ txn = NoTxn
    /\ seen = NoSeen
    /\ page = NoPage

Next ==
    \/ \E data \in CreatePayloads, fault \in Faults(<<1, 2, 3>>) :
            create_transaction(data, fault)
    \/ \E data \in CreatePayloads, fault \in Faults(<<1>>) :
            routes_create_transaction(data, fault)
    \/ \E id \in TransactionIdInputs, data \in UpdatePayloads, fault \in Faults(<<1>>) :
            update_transaction(id, data, fault)
    \/ \E id \in TransactionIdInputs, data \in UpdatePayloads, fault \in Faults(<<1>>) :
            routes_update_transaction(id, data, fault)
    \/ \E id \in TransactionIdInputs : get_transaction(id)
    \/ \E id \in TransactionIdInputs : routes_get_transaction(id)
    \/ \E id \in AccountIdInputs : get_account(id)

Spec == Init /\ [][Next]_vars

\* the balance-tracking application serving one create at a time, step by
\* step, while other requests read
InitRW == Init /\ variant = "tracking"

NextRW ==
    \/ \E data \in CreatePayloads : create_begin(data)
    \/ create_flush
    \/ create_commit
    \/ \E kind \in {"Exception", "SQLAlchemyError"} : create_fail(kind)
    \/ \E id \in TransactionIdInputs : read_get_transaction(id)
    \/ read_get_transactions
    \/ \E id \in AccountIdInputs : read_get_account(id)
    \/ read_get_accounts

SpecRW == InitRW /\ [][NextRW]_vars

\* ---------------------------------------------------------------- properties

RECURSIVE SumOver(_, _)
SumOver(f, S) ==
    IF S = {} THEN 0
    ELSE LET a == CHOOSE x \in S : TRUE IN f[a] + SumOver(f, S \ {a})

TotalBalance(b) == SumOver(b, DOMAIN b)

\* the step inserted a row and answered 201 for it
CreateSucceeded ==
    /\ Len(transactions') = Len(transactions) + 1
    /\ resp'.op = "create_transaction"
    /\ resp'.status = 201

StoreUnchanged == balance' = balance /\ transactions' = transactions

\* C1 (conservation): in the balance-tracking application a successful create
\* lowers the source balance by exactly the transaction's amount, raises the
\* destination balance by the same amount and leaves every other balance as it
\* was; and the sum of all balances is the seeded sum in every reachable state.
C1_ConservationStep ==
    (variant = "tracking" /\ CreateSucceeded) =>
        LET row == resp'.row
        IN  /\ row.amount = Quantize(resp'.req.amount)
            /\ row.from_account_id = resp'.req.from_account_id
            /\ row.to_account_id = resp'.req.to_account_id
            /\ balance'[row.from_account_id] = balance[row.from_account_id] - row.amount
            /\ balance'[row.to_account_id] = balance[row.to_account_id] + row.amount
            /\ \A a \in AccountIds \ {row.from_account_id, row.to_account_id} :
                    balance'[a] = balance[a]

C3_FundsStep ==
    /\ (resp'.op = "create_transaction"
        /\ resp'.message = "Insufficient funds in source account") =>
            /\ variant = "tracking"
            /\ resp'.status = 400
            /\ resp'.error = "ValidationError"
            /\ balance[resp'.req.from_account_id] < Quantize(resp'.req.amount)
            /\ StoreUnchanged
    /\ (variant = "tracking" /\ CreateSucceeded) =>
            balance[resp'.row.from_account_id] >= resp'.row.amount
    /\ (variant = "tracking"
        /\ \E data \in WellFormedData :
              /\ balance[data.from_account_id] = Quantize(data.amount)
              /\ create_transaction(data, NoFault)) =>
            /\ resp'.status = 201
            /\ balance'[resp'.row.from_account_id] = 0

RECURSIVE Net(_, _)
Net(rows, a) ==
    IF rows = <<>> THEN 0
    ELSE Net(Tail(rows), a)
         + (IF Head(rows).date > 0 /\ Head(rows).to_account_id = a
            THEN Head(rows).amount ELSE 0)
         - (IF Head(rows).date > 0 /\ Head(rows).from_account_id = a
            THEN Head(rows).amount ELSE 0)

WhollyApplied(store) ==
    \A a \in AccountIds : store.balance[a] = SeedAccounts[a] + Net(store.transactions, a)

\* a step taken while the unit of work stays open
C5_OpenUnitStep ==
    (txn.pc = "uow" /\ txn'.pc = "uow") =>
        /\ balance' = balance
        /\ transactions' = transactions
        /\ seen' # seen => seen'.snapshot = Store

C6_InitialStateStep ==
    (Len(transactions') = Len(transactions) + 1) =>
        /\ transactions'[Len(transactions')].state = SENT
        /\ resp'.op = "create_transaction"
        /\ resp'.status = 201
        /\ resp'.id = Len(transactions')
        /\ resp'.row.state = SENT

C7_UpdateFrameStep ==
    (resp'.op = "update_transaction" /\ resp'.status = 200) =>
        /\ balance' = balance
        /\ resp'.id \in DOMAIN transactions
        /\ transactions' =
              [transactions EXCEPT ![resp'.id].state = transactions'[resp'.id].state]

C7_UpdateFrame == [][C7_UpdateFrameStep]_vars

C7_Witness ==
    /\ resp.op = "update_transaction"
    /\ resp.status = 200
    /\ \E i \in DOMAIN transactions :
          i # resp.id /\ transactions[i].state # transactions[resp.id].state

\* C8 (unrestricted transitions): for every stored transaction, whatever its
\* current state, and every new state among sent, received and paid, the
\* update is accepted and leaves the transaction in the new state.
C8_AnyTransition ==
    \A id \in DOMAIN transactions, t \in TransactionState :
        LET outcome == UpdateOutcome(Store, id, [state |-> <<Txt(t)>>, extra |-> FALSE], NoFault)
        IN  /\ outcome.resp.status = 200
            /\ outcome.resp.row.state = t
            /\ outcome.store.transactions[id].state = t

\* a seeded row (received) was moved back to sent by an update
C8_Witness ==
    /\ resp.op = "update_transaction"
    /\ resp.status = 200
    /\ resp.id = 1
    /\ transactions[1].date = 0
    /\ transactions[1].state = SENT

AllowedStatesListed == {"state: State must be one of: sent, received, paid"}

C9_InvalidStateResponse ==
    (resp.op = "update_transaction" /\ resp.req.state \notin TransactionState) =>
        /\ resp.status = 400
        /\ resp.error = "ValidationError"
        /\ IF resp.req.raw # "<absent>"
           THEN resp.details = AllowedStatesListed
           ELSE \/ resp.details = {"state: Missing data for required field."}
                \/ resp.details = {} /\ resp.message = "No JSON data provided"

C10_ByIdOutcomes ==
    /\ \A id \in TransactionIdInputs :
          LET read == GetOutcome("get_transaction", Store, "Transaction", id)
          IN  IF id \in DOMAIN transactions
              THEN read.status = 200 /\ read.row.id = id
              ELSE read.status = 404 /\ read.error = "ResourceNotFoundError"
    /\ \A id \in AccountIdInputs :
          LET read == GetOutcome("get_account", Store, "Account", id)
          IN  IF id \in AccountIds
              THEN read.status = 200 /\ read.id = id
              ELSE read.status = 404 /\ read.error = "ResourceNotFoundError"
    /\ \A id \in TransactionIdInputs, t \in TransactionState :
          LET outcome == UpdateOutcome(Store, id, [state |-> <<Txt(t)>>, extra |-> FALSE],
                                       NoFault)
          IN  IF id \in DOMAIN transactions
              THEN outcome.resp.status = 200 /\ outcome.resp.row.id = id
              ELSE /\ outcome.resp.status = 404
                   /\ outcome.resp.error = "ResourceNotFoundError"
                   /\ outcome.store = Store

C10_NotFoundResponse ==
    (resp.op \in {"get_transaction", "get_account", "update_transaction"}
     /\ resp.status \in {200, 404}) =>
        LET present == IF resp.op = "get_account" THEN resp.id \in AccountIds
                       ELSE resp.id \in DOMAIN transactions
        IN  IF resp.status = 404
            THEN ~present /\ resp.error = "ResourceNotFoundError"
            ELSE present

C10_NotFound ==
    /\ [](C10_ByIdOutcomes /\ C10_NotFoundResponse)
    /\ [][(resp'.status = 404) => StoreUnchanged]_vars

C10_Witness ==
    /\ resp.op = "update_transaction"
    /\ resp.status = 404
    /\ resp.error = "ResourceNotFoundError"
    /\ resp.req.state \in TransactionState
    /\ resp.id \notin DOMAIN transactions

\* the create handler of the application in service
ServedCreateOutcome(data) ==
    IF variant = "tracking" THEN CreateOutcome(Store, data, NoFault)
    ELSE RoutesCreateOutcome(Store, data, NoFault)

\* C11 (create, missing account): a create whose body passes validation and
\* whose from_account_id or to_account_id is the id of no account answers 404
\* ResourceNotFoundError, inserts no row and changes no balance.
C11_MissingAccountOutcome ==
    \A data \in CreatePayloads :
        (/\ data # EmptyData
         /\ TransactionSchemaErrors(data) = {}
         /\ \/ data.from_account_id \notin DOMAIN balance
            \/ data.to_account_id \notin DOMAIN balance)
        => /\ ServedCreateOutcome(data).store = Store
           /\ ServedCreateOutcome(data).resp.status = 404
           /\ ServedCreateOutcome(data).resp.error = "ResourceNotFoundError"

C11_MissingAccountStep ==
    (/\ resp'.op = "create_transaction"
     /\ resp'.req # NoReq
     /\ \/ resp'.req.from_account_id \notin DOMAIN balance
        \/ resp'.req.to_account_id \notin DOMAIN balance)
    => /\ resp'.status = 404
       /\ resp'.error = "ResourceNotFoundError"
       /\ StoreUnchanged

C11_MissingAccount ==
    /\ []C11_MissingAccountOutcome
    /\ [][C11_MissingAccountStep]_vars

\* the destination alone is missing
C11_Witness ==
    /\ resp.op = "create_transaction"
    /\ resp.status = 404
    /\ resp.req.from_account_id \in DOMAIN balance
    /\ resp.req.to_account_id \notin DOMAIN balance

SameAccountListed == {"to_account_id: Source and destination accounts must be different"}

\* rows inserted through the API (the seeded rows have date 0)
CreatedRows == SelectSeq(transactions, LAMBDA row : row.date > 0)

\* C12 (same account): a create whose from_account_id equals its
\* to_account_id answers 400 ValidationError and changes nothing, the details
\* naming "Source and destination accounts must be different" when every field
\* is valid on its own; and every row inserted through the API has two
\* different accounts.
C12_SameAccountOutcome ==
    \A data \in CreatePayloads :
        (data # EmptyData /\ data.from_account_id = data.to_account_id)
        => /\ ServedCreateOutcome(data).store = Store
           /\ ServedCreateOutcome(data).resp.status = 400
           /\ ServedCreateOutcome(data).resp.error = "ValidationError"
           /\ TransactionFieldErrors(data) = {}
                 => ServedCreateOutcome(data).resp.details = SameAccountListed

AmountListed == "amount: Amount must be greater than zero"

\* C13 (positive amounts): a create whose amount is zero or negative answers
\* 400 ValidationError with "Amount must be greater than zero" among the
\* details and inserts nothing; and every row inserted through the API has an
\* amount of at least 0.01.
C13_PositiveAmountOutcome ==
    \A data \in CreatePayloads :
        (data.amount # NoInt /\ data.amount <= 0)
        => /\ ServedCreateOutcome(data).store = Store
           /\ ServedCreateOutcome(data).resp.status = 400
           /\ ServedCreateOutcome(data).resp.error = "ValidationError"
           /\ AmountListed \in ServedCreateOutcome(data).resp.details

C13_PositiveAmount ==
    /\ C13_PositiveAmountOutcome
    /\ \A i \in DOMAIN CreatedRows : CreatedRows[i].amount >= MinAmountCents
    /\ AmountListed \in resp.details
          => resp.op = "create_transaction" /\ resp.status = 400

\* the rejection was answered while the store held a row made by create
C13_Witness ==
    /\ resp.op = "create_transaction"
    /\ resp.details = {AmountListed}
    /\ CreatedRows # <<>>

\* C14 (at most two decimals): a create whose amount has a third fractional
\* digit (request amounts are in thousandths) is answered 400 ValidationError
\* and nothing else: it is never rounded and accepted.
C14_ThreeDecimalsRejected ==
    (/\ resp.op = "create_transaction"
     /\ resp.req # NoReq
     /\ resp.req.amount % 10 # 0)
    => /\ resp.status = 400
       /\ resp.error = "ValidationError"

\* C15 (lifecycle immutability): in every step, every transaction in the
\* store is still there afterwards with the same amount, from_account_id and
\* to_account_id, and the set of account ids is the same.
C15_ImmutableStep ==
    /\ DOMAIN balance \subseteq DOMAIN balance'
    /\ \A i \in DOMAIN transactions :
          /\ i \in DOMAIN transactions'
          /\ transactions'[i].amount = transactions[i].amount
          /\ transactions'[i].from_account_id = transactions[i].from_account_id
          /\ transactions'[i].to_account_id = transactions[i].to_account_id

C15_Immutable == [][C15_ImmutableStep]_vars

\* a row made by create has since been moved to paid
C15_Witness ==
    /\ resp.op = "update_transaction"
    /\ resp.status = 200
    /\ CreatedRows # <<>>
    /\ CreatedRows[1].state = PAID

\* C16 (no automatic transitions): in every step, the state of a transaction
\* already in the store changes only if the step is an update answered 200
\* for that transaction's id, and then to the state the update asked for.
C16_NoAutomaticStep ==
    \A i \in DOMAIN transactions :
        (i \in DOMAIN transactions' /\ transactions'[i].state # transactions[i].state)
        => /\ resp'.op = "update_transaction"
           /\ resp'.status = 200
           /\ resp'.id = i
           /\ transactions'[i].state = resp'.req.state

C16_NoAutomatic == [][C16_NoAutomaticStep]_vars

\* an update of a stored transaction failed in its unit of work and the
\* transaction is not in the state that was asked for
C16_Witness ==
    /\ resp.op = "update_transaction"
    /\ resp.status = 500
    /\ resp.id \in DOMAIN transactions
    /\ resp.req.state \in TransactionState
    /\ transactions[resp.id].state # resp.req.state

C18_ReferentialIntegrity ==
    \A i \in DOMAIN transactions :
        /\ transactions[i].from_account_id \in DOMAIN balance
        /\ transactions[i].to_account_id \in DOMAIN balance

\* a create naming a missing account was refused after another had inserted
C18_Witness ==
    /\ resp.op = "create_transaction"
    /\ resp.status = 404
    /\ CreatedRows # <<>>

\* C19 (generated ids): a step that answers 201 for a create inserts exactly
\* one transaction, under an id no transaction had before, and that id is the
\* one in the response: a read of it finds the row the response showed. A
\* create answered otherwise inserts nothing, and no other step inserts.
C19_Answered201 ==
    /\ resp'.op = "create_transaction"
    /\ resp'.status = 201
    /\ resp' # resp \/ transactions' # transactions

C19_GeneratedIdStep ==
    /\ C19_Answered201 =>
          /\ DOMAIN transactions' \ DOMAIN transactions = {resp'.id}
          /\ DOMAIN transactions \subseteq DOMAIN transactions'
          /\ GetOutcome("get_transaction", Store', "Transaction", resp'.id).status = 200
          /\ GetOutcome("get_transaction", Store', "Transaction", resp'.id).row = resp'.row
    /\ ~C19_Answered201 => DOMAIN transactions' = DOMAIN transactions

C19_GeneratedId == [][C19_GeneratedIdStep]_vars

\* a later read by the generated id found the created row
C19_Witness ==
    /\ resp.op = "get_transaction"
    /\ resp.status = 200
    /\ resp.row.date > 0
    /\ resp.row.id = Len(transactions)

\* ---------------------------------------------------------- list and search

\* Range(min=1, max=100) of the query schemas, `if limit > 100` of search
MaxLimit == 100
\* missing=100 of the query schemas, request.args.get('limit', 100, type=int)
DefaultLimit == 100

\* rows created through the API in the largest table that is listed
MaxRows == 101

\* seed.py: account_name of the accounts and the rank of each name and of
\* each (random) account_number in ascending order
AccountName == <<"John Doe Checking", "Jane Smith Savings", "Michael Johnson Business">>
AccountNameRank == <<2, 1, 3>>
AccountNumberRank == <<3, 1, 2>>

\* Transaction.beneficiary: the name of the destination account
Beneficiary(row) == AccountName[row.to_account_id]

\* column.ilike('%q%') for the texts and the queries of the model
ILikePairs == {<<TRANSACTION, "transaction">>, <<"John Doe Checking", "john">>}
ILike(text, q) == <<text, q>> \in ILikePairs

\* the i-th transfer of a long run of creates of 0.01 that cycles through
\* the accounts: 2 -> 3, 3 -> 1, 1 -> 2, ...
CycleRow(i) ==
    [amount |-> MinAmountCents,
     from_account_id |-> 1 + (i % 3),
     to_account_id |-> 1 + ((i + 1) % 3),
     state |-> SENT,
     description |-> TRANSACTION,
     date |-> i + 1]

\* the store after n such creates
CycleTable(n) == SeedTransactions \o [i \in 1..n |-> CycleRow(i)]
CycleBalance(n) == [a \in AccountIds |-> SeedAccounts[a] + Net(CycleTable(n), a)]

\* field errors of AccountQuerySchema / TransactionQuerySchema
QueryFieldErrors(params, sort_fields, listed) ==
       (IF params.limit # NoInt /\ (params.limit < 1 \/ params.limit > MaxLimit)
        THEN {"limit: Limit must be between 1 and 100"} ELSE {})
  \cup (IF params.offset # NoInt /\ params.offset < 0
        THEN {"offset: Offset cannot be negative"} ELSE {})
  \cup (IF params.sort_by # "" /\ params.sort_by \notin sort_fields
        THEN {"sort_by: Sort field must be one of: " \o listed} ELSE {})
  \cup (IF params.sort_order # "" /\ params.sort_order \notin {"asc", "desc"}
        THEN {"sort_order: Sort order must be one of: asc, desc"} ELSE {})

\* ORDER BY key ASC|DESC over the ids of a table; equal keys in id order
\* (ranked pairs each id with the number of ids that come before it)
ByRank(ranked) ==
    [r \in 1..Cardinality(ranked) |-> (CHOOSE p \in ranked : p[1] = r - 1)[2]]

OrderBy(ids, key, descending) ==
    LET Before(j, i) ==
            \/ (IF descending THEN key[j] > key[i] ELSE key[j] < key[i])
            \/ (key[j] = key[i] /\ j < i)
    IN  ByRank({<<Cardinality({j \in ids : Before(j, i)}), i>> : i \in ids})

\* keeps a request above 100
ClampLimit_off(limit) == limit

\* search: if limit > 100: limit = 100
ClampLimit(limit) == IF limit > MaxLimit THEN MaxLimit ELSE limit

\* LIMIT ? OFFSET ? as SQLite applies them: a negative LIMIT is no limit, a
\* negative OFFSET is 0
Paginate(ids, limit, offset) ==
    LET skip == IF offset < 0 THEN 0 ELSE offset
        last == IF limit < 0 \/ skip + limit > Len(ids) THEN Len(ids) ELSE skip + limit
    IN  SubSeq(ids, skip + 1, last)

\* get_transactions (app.py and routes/transactions.py)
TransactionsOutcome(store, params) ==
    LET errors == QueryFieldErrors(params, {"date", "amount", "beneficiary"},
                                   "date, amount, beneficiary")
        limit == IF params.limit = NoInt THEN DefaultLimit ELSE params.limit
        offset == IF params.offset = NoInt THEN 0 ELSE params.offset
        rows == store.transactions
        found == {i \in DOMAIN rows :
                     \/ params.search = ""
                     \/ ILike(Beneficiary(rows[i]), params.search)
                     \/ ILike(rows[i].description, params.search)}
        key == [i \in found |->
                   IF params.sort_by = "amount" THEN rows[i].amount
                   ELSE IF params.sort_by = "beneficiary"
                        THEN AccountNameRank[rows[i].to_account_id]
                   ELSE rows[i].date]
    IN  IF errors # {}
        THEN PageError("get_transactions", 400, "ValidationError",
                       "Request validation failed", errors, params)
        ELSE PageOk("get_transactions", <<>>,
                    Paginate(OrderBy(found, key, params.sort_order # "asc"), limit, offset),
                    params)

\* get_accounts (routes/accounts.py)
AccountsOutcome(store, params) ==
    LET errors == QueryFieldErrors(params,
                                   {"account_number", "account_name", "balance", "created_at"},
                                   "account_number, account_name, balance, created_at")
        limit == IF params.limit = NoInt THEN DefaultLimit ELSE params.limit
        offset == IF params.offset = NoInt THEN 0 ELSE params.offset
        ids == DOMAIN store.balance
        key == [a \in ids |->
                   IF params.sort_by = "account_name" THEN AccountNameRank[a]
                   ELSE IF params.sort_by = "created_at" THEN a
                   ELSE AccountNumberRank[a]]
    IN  IF errors # {}
        THEN PageError("get_accounts", 400, "ValidationError",
                       "Request validation failed", errors, params)
        ELSE PageOk("get_accounts",
                    Paginate(OrderBy(ids, key, params.sort_order \notin {"", "asc"}),
                             limit, offset),
                    <<>>, params)

\* the two SELECTs of search, in table order (the queries have no ORDER BY)
SearchAccounts(store, q) ==
    SelectSeq([a \in 1..Len(store.balance) |-> a],
              LAMBDA a : ILike(AccountName[a], q))

SearchTransactions(store, q) ==
    SelectSeq([i \in 1..Len(store.transactions) |-> i],
              LAMBDA i : \/ ILike(Beneficiary(store.transactions[i]), q)
                         \/ ILike(store.transactions[i].description, q))

\* takes a missing q as the pattern %%, which every row matches
SearchOutcome_anyquery(store, params) ==
    LET limit == IF params.limit = NoInt THEN DefaultLimit ELSE params.limit
        offset == IF params.offset = NoInt THEN 0 ELSE params.offset
    IN  PageOk("search",
               Paginate([a \in 1..Len(store.balance) |-> a], limit, offset),
               Paginate([i \in 1..Len(store.transactions) |-> i], limit, offset),
               params)

\* search of app.py, where Transaction.beneficiary is a column
SearchOutcome(store, params) ==
    LET limit == ClampLimit(IF params.limit = NoInt THEN DefaultLimit ELSE params.limit)
        offset == IF params.offset = NoInt THEN 0 ELSE params.offset
    IN  IF params.q = ""
        THEN PageError("search", 400, "ValidationError", "Search query is required",
                       {}, params)
        ELSE PageOk("search",
                    Paginate(SearchAccounts(store, params.q), limit, offset),
                    Paginate(SearchTransactions(store, params.q), limit, offset),
                    params)

\* search of routes/search.py: models.py makes Transaction.beneficiary a
\* property, so building the second filter raises AttributeError
RoutesSearchOutcome(store, params) ==
    IF params.q = ""
    THEN PageError("search", 400, "ValidationError", "Search query is required",
                   {}, params)
    ELSE PageError("search", 500, "UnexpectedError", "An unexpected error occurred",
                   {}, params)

\* query strings
LimitInputs == {NoInt, 0 - 1, 0, MaxLimit, MaxLimit + 1, MaxLimit + 50}
OffsetInputs == {NoInt, 0 - 1, 1}
SortByInputs ==
    {"date", "amount", "beneficiary", "account_number", "account_name", "balance",
     "created_at", "id"}
ListParams ==
         {[NoParams EXCEPT !.limit = l, !.offset = o] : l \in LimitInputs, o \in OffsetInputs}
    \cup {[NoParams EXCEPT !.sort_by = s, !.sort_order = o] :
             s \in SortByInputs, o \in {"asc", "desc"}}
SearchParams ==
         {[NoParams EXCEPT !.limit = l, !.offset = o, !.q = q] :
             l \in LimitInputs, o \in OffsetInputs, q \in {"", "transaction"}}
    \cup {[NoParams EXCEPT !.offset = o, !.q = "john"] : o \in OffsetInputs}

Answer(response) ==
    /\ page' = response
    /\ UNCHANGED <<variant, balance, transactions, resp, txn, seen>>

get_transactions(params) ==
    /\ variant = "tracking"
    /\ Answer(TransactionsOutcome(Store, params))

routes_get_transactions(params) ==
    /\ variant = "routes"
    /\ Answer(TransactionsOutcome(Store, params))

get_accounts(params) ==
    /\ variant = "routes"
    /\ Answer(AccountsOutcome(Store, params))

search(params) ==
    /\ variant = "tracking"
    /\ Answer(SearchOutcome(Store, params))

routes_search(params) ==
    /\ variant = "routes"
    /\ Answer(RoutesSearchOutcome(Store, params))

\* the store after a few creates, after as many as one page holds, and after
\* more; then list and search requests
TableSizes == {2, MaxRows}

InitQuery ==
    /\ variant \in {"tracking", "routes"}
    /\ \E n \in TableSizes :
          /\ transactions = CycleTable(n)
          /\ balance = CycleBalance(n)
    /\ resp = Ok("none", 0, 0, NoRow, NoReq)
    /\ txn = NoTxn
    /\ seen = NoSeen
    /\ page = NoPage

NextQuery ==
    \/ \E params \in ListParams : get_transactions(params)
    \/ \E params \in ListParams : routes_get_transactions(params)
    \/ \E params \in ListParams : get_accounts(params)
    \/ \E params \in SearchParams : search(params)
    \/ \E params \in SearchParams : routes_search(params)

SpecQuery == InitQuery /\ [][NextQuery]_vars

\* the response the served application gives to a list or search request
ServedPage(op, params) ==
    IF op = "get_transactions" THEN TransactionsOutcome(Store, params)
    ELSE IF op = "get_accounts" THEN AccountsOutcome(Store, params)
    ELSE IF variant = "tracking" THEN SearchOutcome(Store, params)
    ELSE RoutesSearchOutcome(Store, params)

Records(response) == <<response.accounts, response.transactions>>

AtMaxLimit(params) == [params EXCEPT !.limit = MaxLimit]

LimitListed == "limit: Limit must be between 1 and 100"

C21_NonPositiveRejected ==
    (/\ page.op # "none"
     /\ \/ (page.params.limit # NoInt /\ page.params.limit <= 0)
        \/ (page.params.offset # NoInt /\ page.params.offset < 0)) =>
        /\ page.status = 400
        /\ page.error = "ValidationError"
        /\ Records(page) = <<<<>>, <<>>>>

\* consecutive records of a response in the order of key
Ordered(ids, key, descending) ==
    \A p \in 1..(Len(ids) - 1) :
        IF descending THEN key[ids[p]] >= key[ids[p + 1]]
        ELSE key[ids[p]] <= key[ids[p + 1]]

\* the value of the named field, per transaction id and per account id
TransactionField(sort_by) ==
    [i \in DOMAIN transactions |->
        IF sort_by = "date" THEN transactions[i].date
        ELSE IF sort_by = "amount" THEN transactions[i].amount
        ELSE AccountNameRank[transactions[i].to_account_id]]

AccountField(sort_by) ==
    [a \in AccountIds |->
        IF sort_by = "account_number" THEN AccountNumberRank[a]
        ELSE IF sort_by = "account_name" THEN AccountNameRank[a]
        ELSE a]

\* C22: list rejects with ValidationError every sort_by outside the allow-list
\* (transactions: date, amount, beneficiary; accounts: account_number,
\* account_name, created_at), and for every accepted sort_by the result is
\* ordered by exactly that field.
C22_SortByAllowList ==
    /\ (/\ page.op = "get_transactions"
        /\ page.params.sort_by \notin {"", "date", "amount", "beneficiary"}) =>
            (page.status = 400 /\ page.error = "ValidationError")
    /\ (/\ page.op = "get_accounts"
        /\ page.params.sort_by \notin {"", "account_number", "account_name", "created_at"}) =>
            (page.status = 400 /\ page.error = "ValidationError")
    /\ (page.op = "get_transactions" /\ page.status = 200 /\ page.params.sort_by # "") =>
            Ordered(page.transactions, TransactionField(page.params.sort_by),
                    page.params.sort_order = "desc")
    /\ (page.op = "get_accounts" /\ page.status = 200 /\ page.params.sort_by # "") =>
            Ordered(page.accounts, AccountField(page.params.sort_by),
                    page.params.sort_order = "desc")

\* C23: search with a missing or empty q fails with ValidationError "Search
\* query is required" (status 400) and returns no accounts and no
\* transactions.
C23_QueryRequired ==
    (page.op = "search" /\ page.params.q = "") =>
        /\ page.status = 400
        /\ page.error = "ValidationError"
        /\ page.message = "Search query is required"
        /\ Records(page) = <<<<>>, <<>>>>

\* a search without q over a populated store, refused
C23_Witness ==
    /\ page.op = "search"
    /\ page.params.q = ""
    /\ page.status = 400
    /\ Len(transactions) > 1

\* the accounts and the transactions a query matches
MatchingAccounts(q) == {a \in AccountIds : ILike(AccountName[a], q)}

MatchingTransactions(q) ==
    {i \in DOMAIN transactions :
        ILike(Beneficiary(transactions[i]), q) \/ ILike(transactions[i].description, q)}

Range(ids) == {ids[p] : p \in DOMAIN ids}

\* C24: search with a non-empty q succeeds and returns, within limit and
\* offset, exactly the matching accounts and exactly the matching
\* transactions, both in one response.
C24_SearchMatches ==
    (page.op = "search" /\ page.params.q # "") =>
        /\ page.status = 200
        /\ Range(page.accounts) \subseteq MatchingAccounts(page.params.q)
        /\ Range(page.transactions) \subseteq MatchingTransactions(page.params.q)
        /\ (page.params.limit = NoInt /\ page.params.offset = NoInt) =>
              /\ Cardinality(MatchingAccounts(page.params.q)) <= MaxLimit =>
                    Range(page.accounts) = MatchingAccounts(page.params.q)
              /\ Cardinality(MatchingTransactions(page.params.q)) <= MaxLimit =>
                    Range(page.transactions) = MatchingTransactions(page.params.q)

\* the message of handle_unexpected_error and of the 500 handler
GenericMessage == "An unexpected error occurred"

\* C25: when the store fails or an unexpected exception occurs during create
\* or update, the caller receives status 500 with a generic message holding
\* no text of the underlying error.
C25_GenericMessage ==
    (resp.op \in {"create_transaction", "update_transaction"} /\ resp.status = 500) =>
        resp.message = GenericMessage

\* --------------------------------------------------- reads between writes

\* creates, updates and every read handler in one application
ReadsCreatePayloads == {BaseData, [BaseData EXCEPT !.amount = 0]}
ReadsUpdatePayloads ==
    {[state |-> v, extra |-> FALSE] : v \in {<<Txt(PAID)>>, <<Txt("completed")>>}}
ReadsListParams == {[NoParams EXCEPT !.limit = 1, !.sort_by = "amount"]}
ReadsSearchParams == {[NoParams EXCEPT !.q = "transaction"]}

NextReads ==
    \/ \E data \in ReadsCreatePayloads, fault \in Faults(<<1, 2, 3>>) :
            create_transaction(data, fault)
    \/ \E data \in ReadsCreatePayloads, fault \in Faults(<<1>>) :
            routes_create_transaction(data, fault)
    \/ \E id \in TransactionIdInputs, data \in ReadsUpdatePayloads, fault \in Faults(<<1>>) :
            update_transaction(id, data, fault)
    \/ \E id \in TransactionIdInputs, data \in ReadsUpdatePayloads, fault \in Faults(<<1>>) :
            routes_update_transaction(id, data, fault)
    \/ \E id \in TransactionIdInputs : get_transaction(id)
    \/ \E id \in TransactionIdInputs : routes_get_transaction(id)
    \/ \E id \in AccountIdInputs : get_account(id)
    \/ \E params \in ReadsListParams : get_transactions(params)
    \/ \E params \in ReadsListParams : routes_get_transactions(params)
    \/ \E params \in ReadsListParams : get_accounts(params)
    \/ \E params \in ReadsSearchParams : search(params)
    \/ \E params \in ReadsSearchParams : routes_search(params)

SpecReads == Init /\ [][NextReads]_vars

ReadOps == {"get_transaction", "get_account"}

\* a step of getById (it answers in resp) or of list or search (in page)
ReadStep == resp'.op \in ReadOps \/ page' # page

\* C26: getById, list and search never modify the store, a create or update
\* that does not succeed leaves it as it was, and a read of a resource id
\* that follows a read of the same id returns identical content.
C26_ReadStep ==
    /\ ReadStep => Store' = Store
    /\ (~ReadStep /\ resp'.status \notin {200, 201}) => Store' = Store
    /\ (resp.op \in ReadOps /\ resp'.op = resp.op /\ resp'.id = resp.id) => resp' = resp

concurrent_create(data) ==
    /\ variant = "tracking"
    /\ txn.pc = "uow"
    /\ txn.pending = <<>>
    /\ LET outcome == CreateOutcome(Store, data, NoFault)
       IN  /\ outcome.uow => Created < MaxTx
           /\ balance' = outcome.store.balance
           /\ transactions' = outcome.store.transactions
           /\ resp' = outcome.resp
    /\ UNCHANGED <<variant, txn, seen, page>>

NextConcurrent ==
    \/ \E data \in CreatePayloads : create_begin(data)
    \/ \E data \in CreatePayloads : concurrent_create(data)
    \/ create_flush
    \/ create_commit
    \/ \E kind \in {"Exception", "SQLAlchemyError"} : create_fail(kind)

SpecConcurrent == InitRW /\ [][NextConcurrent]_vars

\* no create is in flight
AllFinished == txn.pc = "idle"

C30_CheckOrdering ==
    /\ \A data \in UpdatePayloads :
          ((data.state = NoStr /\ ~data.extra) \/ TransactionUpdateSchemaErrors(data) # {})
          => UpdateOutcome(Store, MissingTransactionId, data, NoFault).resp.error
                 = "ValidationError"
    /\ \A data \in CreatePayloads :
          /\ (/\ data # EmptyData
              /\ TransactionSchemaErrors(data) # {}
              /\ \/ data.from_account_id \notin DOMAIN balance
                 \/ data.to_account_id \notin DOMAIN balance)
             => ServedCreateOutcome(data).resp.error = "ValidationError"
          /\ (/\ data # EmptyData
              /\ TransactionSchemaErrors(data) = {}
              /\ data.from_account_id \notin DOMAIN balance)
             => /\ ServedCreateOutcome(data).resp.status = 404
                /\ ServedCreateOutcome(data).resp.id = data.from_account_id
          /\ (/\ variant = "tracking"
              /\ data # EmptyData
              /\ TransactionSchemaErrors(data) = {}
              /\ data.from_account_id \in DOMAIN balance
              /\ data.to_account_id \notin DOMAIN balance
              /\ InsufficientFunds(Store, data))
             => /\ ServedCreateOutcome(data).resp.status = 404
                /\ ServedCreateOutcome(data).resp.id = data.to_account_id
    /\ (/\ resp.op = "create_transaction"
        /\ resp.status = 404
        /\ resp.req.from_account_id \notin DOMAIN balance)
       => resp.id = resp.req.from_account_id
    /\ (resp.op = "create_transaction"
        /\ resp.message = "Insufficient funds in source account")
       => /\ resp.req.from_account_id \in DOMAIN balance
          /\ resp.req.to_account_id \in DOMAIN balance

\* a create naming two missing accounts, answered for the source
C30_Witness ==
    /\ resp.op = "create_transaction"
    /\ resp.status = 404
    /\ resp.req.from_account_id \notin DOMAIN balance
    /\ resp.req.to_account_id \notin DOMAIN balance
    /\ resp.req.from_account_id # resp.req.to_account_id
    /\ resp.id = resp.req.from_account_id

====
